---- MODULE Spec2Model ----
(***************************************************************************)
(* BNetzA MaStR wind download (mastr_wind_download.py): the paginated bulk *)
(* download of power units, the derivation of the wind subset and the two  *)
(* per-identifier detail downloads, with the CSV files they write.         *)
(*                                                                         *)
(* A CSV file is a sequence of lines, a line a sequence of cell texts.  A  *)
(* DataFrame is a record [names, index, columns, data]: the name of the    *)
(* index, the index labels, the column names and one sequence of cell      *)
(* values per row.  get_data_version() is a constant of the run.           *)
(***************************************************************************)
EXTENDS Integers, Sequences, FiniteSets, TLC

VARIABLES
  upstream,            \* the units GetGefilterteListeStromErzeuger lists, in order
  clock,               \* datetime.datetime.now()
  csv_see,             \* data/bnetza_mastr_<version>_stromerzeuger.csv
  csv_see_wind,        \* data/bnetza_mastr_<version>_stromerzeuger_wind.csv
  csv_wind,            \* data/bnetza_mastr_<version>_windeinheit.csv
  csv_wind_eeg,        \* data/bnetza_mastr_<version>_windeeg.csv
  workflow,            \* the function invoked last
  status,              \* "running", "done", "error" (an exception left it) or "killed"
  exception,           \* the exception that left it, "" when none
  power_unit_list_len, \* argument of download_power_unit
  limit,               \* argument of download_power_unit
  start_from,          \* loop variable of download_power_unit
  unit_wind_list,      \* identifier list of download_unit_wind / download_unit_wind_eeg
  i,                   \* loop variable of download_unit_wind / download_unit_wind_eeg
  returned,            \* what the last call of setup_power_unit_wind returned
  fetched,             \* history: the requests of this invocation, in order
  writes,              \* history: <<file, append>> of the write_to_csv calls of this invocation
  existed,             \* history: the workflow's output file existed when it was invoked
  restarted,           \* history: this invocation repeats one that was killed
  see_rewritten        \* history: csv_see was written after csv_see_wind was derived

vars == <<upstream, clock, csv_see, csv_see_wind, csv_wind, csv_wind_eeg,
          workflow, status, exception, power_unit_list_len, limit, start_from,
          unit_wind_list, i, returned, fetched, writes, existed, restarted,
          see_rewritten>>

\* Bounds of the model.
MaxUnits == 2
MaxTotal == 2
MaxLimit == 2
MaxClock == 1

Min(a, b) == IF a < b THEN a ELSE b

Range(s) == {s[k] : k \in 1..Len(s)}

SeqsUpTo(S, n) == UNION {[1..k -> S] : k \in 0..n}

----------------------------------------------------------------------------
\* The registry behind the SOAP API.

Windeinheit == "Windeinheit"

\* Units the bulk endpoint can list: EinheitMastrNummer, Einheittyp, Standort
\* and EegMastrNummer (blank for a unit without an EEG record).  The list may
\* name a unit more than once.
Units ==
  { [EinheitMastrNummer |-> "W1", Einheittyp |-> Windeinheit,
     Standort |-> "Kiel", EegMastrNummer |-> "E1"],
    [EinheitMastrNummer |-> "W2", Einheittyp |-> Windeinheit,
     Standort |-> "\"Hof\"", EegMastrNummer |-> ""],
    [EinheitMastrNummer |-> "S1", Einheittyp |-> "Solareinheit",
     Standort |-> "Hof", EegMastrNummer |-> "E2"] }

\* Identifiers GetEinheitWind and GetAnlageEegWind know.  W2 is listed by the
\* bulk endpoint but has no wind detail record; the blank EEG number has no
\* EEG record.
WindRegistry == {"W1"}
EegRegistry == {"E1", "E2"}

EegOf(id) ==
  IF \E u \in Units : u.EinheitMastrNummer = id
  THEN (CHOOSE u \in Units : u.EinheitMastrNummer = id).EegMastrNummer
  ELSE ""

data_version == "rli_v1"

----------------------------------------------------------------------------
\* Text of numbers and clock readings.

Digit == <<"0", "1", "2", "3", "4", "5", "6", "7", "8", "9">>

RECURSIVE Str(_)
Str(n) == IF n < 10 THEN Digit[n + 1] ELSE Str(n \div 10) \o Digit[(n % 10) + 1]

\* str(datetime.datetime.now()) for a clock reading t.
Timestamp(t) == "t" \o Str(t)

\* str.replace('"', '') on the Standort texts of the registry.
StripQuotes(s) == IF s = "\"Hof\"" THEN "Hof" ELSE s

----------------------------------------------------------------------------
\* DataFrames.

EmptyFrame == [names |-> "", index |-> <<>>, columns |-> <<>>, data |-> <<>>]

HasColumn(df, c) == c \in Range(df.columns)

ColPos(df, c) == CHOOSE k \in 1..Len(df.columns) : df.columns[k] = c

\* df[c].values.tolist()
Column(df, c) == [r \in 1..Len(df.data) |-> df.data[r][ColPos(df, c)]]

\* df[c] = v for a scalar v: replaces the column, or adds it as the last one.
SetColumn(df, c, v) ==
  IF HasColumn(df, c)
  THEN [df EXCEPT !.data =
          [r \in 1..Len(df.data) |-> [df.data[r] EXCEPT ![ColPos(df, c)] = v]]]
  ELSE [df EXCEPT !.columns = Append(df.columns, c),
                  !.data = [r \in 1..Len(df.data) |-> Append(df.data[r], v)]]

\* The rows at the positions in keep (an increasing sequence), labels kept.
TakeRows(df, keep) ==
  [df EXCEPT !.index = [k \in 1..Len(keep) |-> df.index[keep[k]]],
             !.data = [k \in 1..Len(keep) |-> df.data[keep[k]]]]

RECURSIVE Ascending(_)
\* The members of a finite set of numbers, in increasing order.
Ascending(S) ==
  IF S = {} THEN <<>>
  ELSE LET m == CHOOSE x \in S : \A y \in S : x <= y
       IN <<m>> \o Ascending(S \ {m})

\* pd.DataFrame(records) for a list of dicts with the keys cols.
DataFrame(records, cols) ==
  IF records = <<>> THEN EmptyFrame
  ELSE [names |-> "",
        index |-> [r \in 1..Len(records) |-> r - 1],
        columns |-> cols,
        data |-> [r \in 1..Len(records) |->
                    [k \in 1..Len(cols) |-> records[r][cols[k]]]]]

\* drop_duplicates() that drops nothing.
drop_duplicates_none(df) == df

\* DataFrame.drop_duplicates(): a row goes when an earlier row has the same
\* values in every column.
drop_duplicates(df) ==
  TakeRows(df, Ascending({k \in 1..Len(df.data) :
                            \A j \in 1..(k - 1) : df.data[j] # df.data[k]}))

\* df[df.c == v]
FilterEq(df, c, v) ==
  TakeRows(df, Ascending({k \in 1..Len(df.data) : df.data[k][ColPos(df, c)] = v}))

\* pd.DataFrame(list(s.items())).set_index(first column).transpose(): the keys
\* become the columns, the values the one row, labelled 1.
Transposed(items) ==
  [names |-> "",
   index |-> <<1>>,
   columns |-> [k \in 1..Len(items) |-> items[k][1]],
   data |-> <<[k \in 1..Len(items) |-> items[k][2]]>>]

----------------------------------------------------------------------------
\* CSV files.

NoFile == [exists |-> FALSE, lines |-> <<>>]

HeaderLine(df) == <<df.names>> \o df.columns

DataLines(df) ==
  [r \in 1..Len(df.data) |-> <<Str(df.index[r])>> \o df.data[r]]

\* to_csv with header=True on every call.
write_to_csv_header_always(file, df, append) ==
  [exists |-> TRUE,
   lines |-> (IF append THEN file.lines ELSE <<>>)
             \o <<HeaderLine(df)>>
             \o DataLines(df)]

\* df.to_csv(csv_name, mode='a' if append else 'w', header=not append)
write_to_csv(file, df, append) ==
  [exists |-> TRUE,
   lines |-> (IF append THEN file.lines ELSE <<>>)
             \o (IF ~append THEN <<HeaderLine(df)>> ELSE <<>>)
             \o DataLines(df)]

\* What a call hands back: raised names the exception that left it ("" when
\* it returned), value is the DataFrame it returned.
Raise(e) == [raised |-> e, value |-> EmptyFrame]

Return(df) == [raised |-> "", value |-> df]

\* pd.read_csv(csv_name, header=0, index_col=False, dtype=str columns): the
\* first line names the columns, every later line is a row, the index is
\* 0..n-1.  Raises when the file is missing.
read_power_units(file) ==
  IF ~file.exists
  THEN Raise("FileNotFoundError")
  ELSE Return([names |-> "",
               index |-> [r \in 1..(Len(file.lines) - 1) |-> r - 1],
               columns |-> file.lines[1],
               data |-> Tail(file.lines)])

----------------------------------------------------------------------------
\* The SOAP API: what a call can answer.  A fault is an exception raised by
\* the call; a reply is the serialized structure.

Fault == [fault |-> TRUE, items |-> <<>>]

Reply(items) == [fault |-> FALSE, items |-> items]

\* client_bind.GetGefilterteListeStromErzeuger(startAb, limit): the units
\* startAb + 1 .. startAb + limit of the list, as s['Einheiten'].
GetGefilterteListeStromErzeuger(startAb, lim) ==
  {Fault, Reply(SubSeq(upstream, startAb + 1, Min(startAb + lim, Len(upstream))))}

\* client_bind.GetEinheitWind(einheitMastrNummer): the record of a known
\* unit; for an unknown one an error-coded structure or an empty one.
GetEinheitWind(id) ==
  IF id \in WindRegistry
  THEN {Fault,
        Reply(<<<<"Ergebniscode", "OK">>, <<"EinheitMastrNummer", id>>,
                <<"EegMastrNummer", EegOf(id)>>>>)}
  ELSE {Fault,
        Reply(<<>>),
        Reply(<<<<"Ergebniscode", "Fehler">>, <<"EinheitMastrNummer", "">>,
                <<"EegMastrNummer", "">>>>)}

\* client_bind.GetAnlageEegWind(eegMastrNummer)
GetAnlageEegWind(id) ==
  IF id \in EegRegistry
  THEN {Fault,
        Reply(<<<<"Ergebniscode", "OK">>, <<"EegMastrNummer", id>>>>)}
  ELSE {Fault,
        Reply(<<>>),
        Reply(<<<<"Ergebniscode", "Fehler">>, <<"EegMastrNummer", "">>>>)}

----------------------------------------------------------------------------
\* Record Fetcher.  Each fetcher is given the answer c of its API call and
\* the clock reading t of its datetime.datetime.now().

UnitColumns == <<"EinheitMastrNummer", "Einheittyp", "Standort", "EegMastrNummer">>

\* power_unit['Standort'].str.replace('"', '')
StandortUnquoted(df) ==
  [df EXCEPT !.data =
     [r \in 1..Len(df.data) |->
        [df.data[r] EXCEPT ![ColPos(df, "Standort")] =
           StripQuotes(df.data[r][ColPos(df, "Standort")])]]]

\* get_power_unit(start_from, limit).  An empty page gives a frame without
\* columns, and power_unit['Standort'] raises KeyError.
get_power_unit(c, t) ==
  IF c.fault THEN Raise("Fault")
  ELSE LET df0 == [DataFrame(c.items, UnitColumns) EXCEPT !.names = "lid"]
           df1 == SetColumn(df0, "version", data_version)
           power_unit == SetColumn(df1, "timestamp", Timestamp(t))
       IN IF ~HasColumn(power_unit, "Standort")
          THEN Raise("KeyError")
          ELSE Return(StandortUnquoted(power_unit))

\* get_power_unit_wind(mastr_unit_wind).  An empty structure gives a frame
\* without columns, and list(df.columns.values)[0] raises IndexError.
get_power_unit_wind(c, t) ==
  IF c.fault THEN Raise("Fault")
  ELSE IF c.items = <<>> THEN Raise("IndexError")
  ELSE LET df == [Transposed(c.items) EXCEPT !.names = "lid"]
           unit_wind == SetColumn(df, "version", data_version)
       IN Return(SetColumn(unit_wind, "timestamp", Timestamp(t)))

\* get_unit_wind_eeg(mastr_wind_eeg)
get_unit_wind_eeg(c, t) ==
  IF c.fault THEN Raise("Fault")
  ELSE IF c.items = <<>> THEN Raise("IndexError")
  ELSE LET df == [Transposed(c.items) EXCEPT !.names = "lid"]
           unit_wind_eeg == SetColumn(df, "version", data_version)
       IN Return(SetColumn(unit_wind_eeg, "timestamp", Timestamp(t)))

----------------------------------------------------------------------------
\* Pipeline Driver.

\* setup_power_unit_wind() without the os.path.isfile test: it derives and
\* writes the subset on every call.
setup_power_unit_wind_always_derives(see, wind) ==
  LET r == read_power_units(see)
      power_unit == drop_duplicates(r.value)
      power_unit_wind ==
        [FilterEq(power_unit, "Einheittyp", Windeinheit) EXCEPT !.names = "id"]
  IN IF r.raised # ""
     THEN [raised |-> r.raised, value |-> EmptyFrame, file |-> wind, wrote |-> FALSE]
     ELSE [raised |-> "", value |-> power_unit_wind,
           file |-> write_to_csv(wind, power_unit_wind, FALSE), wrote |-> TRUE]

\* setup_power_unit_wind() whose else branch reads csv_see instead of
\* csv_see_wind.
setup_power_unit_wind_rereads_see(see, wind) ==
  IF ~wind.exists
  THEN LET r == read_power_units(see)
           power_unit == drop_duplicates(r.value)
           power_unit_wind ==
             [FilterEq(power_unit, "Einheittyp", Windeinheit) EXCEPT !.names = "id"]
       IN IF r.raised # ""
          THEN [raised |-> r.raised, value |-> EmptyFrame, file |-> wind,
                wrote |-> FALSE]
          ELSE [raised |-> "", value |-> power_unit_wind,
                file |-> write_to_csv(wind, power_unit_wind, FALSE), wrote |-> TRUE]
  ELSE LET r == read_power_units(see)
       IN [raised |-> r.raised, value |-> r.value, file |-> wind, wrote |-> FALSE]

\* setup_power_unit_wind() on the files see (csv_see) and wind (csv_see_wind):
\* what it hands back, the wind file afterwards and whether it was written.
setup_power_unit_wind(see, wind) ==
  IF ~wind.exists
  THEN LET r == read_power_units(see)
           power_unit == drop_duplicates(r.value)
           power_unit_wind ==
             [FilterEq(power_unit, "Einheittyp", Windeinheit) EXCEPT !.names = "id"]
       IN IF r.raised # ""
          THEN [raised |-> r.raised, value |-> EmptyFrame, file |-> wind,
                wrote |-> FALSE]
          ELSE [raised |-> "", value |-> power_unit_wind,
                file |-> write_to_csv(wind, power_unit_wind, FALSE), wrote |-> TRUE]
  ELSE LET r == read_power_units(wind)
       IN [raised |-> r.raised, value |-> r.value, file |-> wind, wrote |-> FALSE]

RECURSIVE Unique(_)
\* The list without its repeated members.
Unique(list) ==
  IF list = <<>> THEN <<>>
  ELSE LET init == SubSeq(list, 1, Len(list) - 1)
           last == list[Len(list)]
       IN IF last \in Range(init) THEN Unique(init) ELSE Append(Unique(init), last)

\* The identifier list with the repeated identifiers removed.
IdentifierList_unique(unit_wind, column) == Unique(Column(unit_wind, column))

\* unit_wind[column].values.tolist()
IdentifierList(unit_wind, column) == Column(unit_wind, column)

\* range(0, power_unit_list_len, limit) stepping one too far.
NextStart_gap(from, lim) == from + lim + 1

\* The step of range(0, power_unit_list_len, limit).
NextStart(from, lim) == from + lim

\* The append argument of write_to_csv in download_power_unit.
AppendPage(from) == from > 0

\* start_from of download_unit_wind.
unit_wind_start_from == 0

\* i >= start_from in place of i > start_from.
AppendWind_always(k) == k >= unit_wind_start_from

\* The append argument of write_to_csv in download_unit_wind.
AppendWind(k) == k > unit_wind_start_from

\* i >= 0 in place of i > 0.
AppendEeg_always(k) == k >= 0

\* The append argument of write_to_csv in download_unit_wind_eeg.
AppendEeg(k) == k > 0

NoReturn == Raise("")

Idle == status # "running"

\* What datetime.datetime.now() can read next.
Readings == clock..Min(clock + 1, MaxClock)

Downloads == {"download_power_unit", "download_unit_wind", "download_unit_wind_eeg"}

Files == <<csv_see, csv_see_wind, csv_wind, csv_wind_eeg>>

Locals == <<power_unit_list_len, limit, start_from, unit_wind_list, i>>

Init ==
  /\ upstream \in SeqsUpTo(Units, MaxUnits)
  /\ clock = 0
  /\ csv_see = NoFile
  /\ csv_see_wind = NoFile
  /\ csv_wind = NoFile
  /\ csv_wind_eeg = NoFile
  /\ workflow = "none"
  /\ status = "done"
  /\ exception = ""
  /\ power_unit_list_len = 0
  /\ limit = 1
  /\ start_from = 0
  /\ unit_wind_list = <<>>
  /\ i = 0
  /\ returned = NoReturn
  /\ fetched = <<>>
  /\ writes = <<>>
  /\ existed = FALSE
  /\ restarted = FALSE
  /\ see_rewritten = FALSE

\* download_power_unit(power_unit_list_len, limit) is called.
download_power_unit(len, lim) ==
  /\ Idle
  /\ workflow' = "download_power_unit"
  /\ status' = "running"
  /\ exception' = ""
  /\ power_unit_list_len' = len
  /\ limit' = lim
  /\ start_from' = 0
  /\ unit_wind_list' = <<>>
  /\ i' = 0
  /\ returned' = NoReturn
  /\ fetched' = <<>>
  /\ writes' = <<>>
  /\ existed' = csv_see.exists
  /\ restarted' = (/\ status = "killed"
                   /\ workflow = "download_power_unit"
                   /\ power_unit_list_len = len
                   /\ limit = lim)
  /\ UNCHANGED <<upstream, clock, Files, see_rewritten>>

\* One pass of the loop of download_power_unit: fetch a page, write it.
download_power_unit_page ==
  /\ workflow = "download_power_unit"
  /\ status = "running"
  /\ start_from < power_unit_list_len
  /\ \E c \in GetGefilterteListeStromErzeuger(start_from, limit), t \in Readings :
       LET power_unit == get_power_unit(c, t)
       IN /\ clock' = t
          /\ fetched' = Append(fetched, start_from)
          /\ exception' = power_unit.raised
          /\ IF power_unit.raised # ""
             THEN /\ status' = "error"
                  /\ UNCHANGED <<csv_see, writes, start_from, see_rewritten>>
             ELSE /\ csv_see' = write_to_csv(csv_see, power_unit.value,
                                             AppendPage(start_from))
                  /\ writes' = Append(writes, <<"stromerzeuger", AppendPage(start_from)>>)
                  /\ start_from' = NextStart(start_from, limit)
                  /\ see_rewritten' = csv_see_wind.exists
                  /\ UNCHANGED status
  /\ UNCHANGED <<upstream, csv_see_wind, csv_wind, csv_wind_eeg, workflow,
                 power_unit_list_len, limit, unit_wind_list, i, returned,
                 existed, restarted>>

\* range(0, power_unit_list_len, limit) is exhausted.
download_power_unit_return ==
  /\ workflow = "download_power_unit"
  /\ status = "running"
  /\ start_from >= power_unit_list_len
  /\ status' = "done"
  /\ UNCHANGED <<upstream, clock, Files, workflow, exception, Locals, returned,
                 fetched, writes, existed, restarted, see_rewritten>>

\* setup_power_unit_wind() is called on its own.
setup_power_unit_wind_call ==
  /\ Idle
  /\ LET r == setup_power_unit_wind(csv_see, csv_see_wind)
     IN /\ csv_see_wind' = r.file
        /\ returned' = [raised |-> r.raised, value |-> r.value]
        /\ status' = IF r.raised # "" THEN "error" ELSE "done"
        /\ exception' = r.raised
        /\ writes' = IF r.wrote THEN <<<<"stromerzeuger_wind", FALSE>>>> ELSE <<>>
        /\ see_rewritten' = IF r.wrote THEN FALSE ELSE see_rewritten
  /\ workflow' = "setup_power_unit_wind"
  /\ power_unit_list_len' = 0
  /\ limit' = 1
  /\ start_from' = 0
  /\ unit_wind_list' = <<>>
  /\ i' = 0
  /\ fetched' = <<>>
  /\ existed' = csv_see_wind.exists
  /\ restarted' = FALSE
  /\ UNCHANGED <<upstream, clock, csv_see, csv_wind, csv_wind_eeg>>

\* download_unit_wind() is called: it takes its identifier list from what
\* setup_power_unit_wind() hands back.
download_unit_wind ==
  /\ Idle
  /\ LET r == setup_power_unit_wind(csv_see, csv_see_wind)
     IN /\ csv_see_wind' = r.file
        /\ returned' = [raised |-> r.raised, value |-> r.value]
        /\ status' = IF r.raised # "" THEN "error" ELSE "running"
        /\ exception' = r.raised
        /\ unit_wind_list' = IF r.raised # "" THEN <<>>
                             ELSE IdentifierList(r.value, "EinheitMastrNummer")
        /\ writes' = IF r.wrote THEN <<<<"stromerzeuger_wind", FALSE>>>> ELSE <<>>
        /\ see_rewritten' = IF r.wrote THEN FALSE ELSE see_rewritten
  /\ workflow' = "download_unit_wind"
  /\ power_unit_list_len' = 0
  /\ limit' = 1
  /\ start_from' = 0
  /\ i' = unit_wind_start_from
  /\ fetched' = <<>>
  /\ existed' = csv_wind.exists
  /\ restarted' = (status = "killed" /\ workflow = "download_unit_wind")
  /\ UNCHANGED <<upstream, clock, csv_see, csv_wind, csv_wind_eeg>>

\* One pass of the loop of download_unit_wind: fetch a Windeinheit, write it.
download_unit_wind_item ==
  /\ workflow = "download_unit_wind"
  /\ status = "running"
  /\ i < Len(unit_wind_list)
  /\ \E c \in GetEinheitWind(unit_wind_list[i + 1]), t \in Readings :
       LET row == get_power_unit_wind(c, t)
       IN /\ clock' = t
          /\ fetched' = Append(fetched, unit_wind_list[i + 1])
          /\ exception' = row.raised
          /\ IF row.raised # ""
             THEN /\ status' = "error"
                  /\ UNCHANGED <<csv_wind, writes, i>>
             ELSE /\ csv_wind' = write_to_csv(csv_wind, row.value, AppendWind(i))
                  /\ writes' = Append(writes, <<"windeinheit", AppendWind(i)>>)
                  /\ i' = i + 1
                  /\ UNCHANGED status
  /\ UNCHANGED <<upstream, csv_see, csv_see_wind, csv_wind_eeg, workflow,
                 power_unit_list_len, limit, start_from, unit_wind_list,
                 returned, existed, restarted, see_rewritten>>

\* The loop of download_unit_wind is exhausted.
download_unit_wind_return ==
  /\ workflow = "download_unit_wind"
  /\ status = "running"
  /\ i >= Len(unit_wind_list)
  /\ status' = "done"
  /\ UNCHANGED <<upstream, clock, Files, workflow, exception, Locals, returned,
                 fetched, writes, existed, restarted, see_rewritten>>

\* download_unit_wind_eeg() is called: it takes its identifier list from what
\* setup_power_unit_wind() hands back.
download_unit_wind_eeg ==
  /\ Idle
  /\ LET r == setup_power_unit_wind(csv_see, csv_see_wind)
     IN /\ csv_see_wind' = r.file
        /\ returned' = [raised |-> r.raised, value |-> r.value]
        /\ status' = IF r.raised # "" THEN "error" ELSE "running"
        /\ exception' = r.raised
        /\ unit_wind_list' = IF r.raised # "" THEN <<>>
                             ELSE IdentifierList(r.value, "EegMastrNummer")
        /\ writes' = IF r.wrote THEN <<<<"stromerzeuger_wind", FALSE>>>> ELSE <<>>
        /\ see_rewritten' = IF r.wrote THEN FALSE ELSE see_rewritten
  /\ workflow' = "download_unit_wind_eeg"
  /\ power_unit_list_len' = 0
  /\ limit' = 1
  /\ start_from' = 0
  /\ i' = 0
  /\ fetched' = <<>>
  /\ existed' = csv_wind_eeg.exists
  /\ restarted' = (status = "killed" /\ workflow = "download_unit_wind_eeg")
  /\ UNCHANGED <<upstream, clock, csv_see, csv_wind, csv_wind_eeg>>

\* One pass of the loop of download_unit_wind_eeg: fetch an EEG-Anlage-Wind, write it.
download_unit_wind_eeg_item ==
  /\ workflow = "download_unit_wind_eeg"
  /\ status = "running"
  /\ i < Len(unit_wind_list)
  /\ \E c \in GetAnlageEegWind(unit_wind_list[i + 1]), t \in Readings :
       LET row == get_unit_wind_eeg(c, t)
       IN /\ clock' = t
          /\ fetched' = Append(fetched, unit_wind_list[i + 1])
          /\ exception' = row.raised
          /\ IF row.raised # ""
             THEN /\ status' = "error"
                  /\ UNCHANGED <<csv_wind_eeg, writes, i>>
             ELSE /\ csv_wind_eeg' = write_to_csv(csv_wind_eeg, row.value, AppendEeg(i))
                  /\ writes' = Append(writes, <<"windeeg", AppendEeg(i)>>)
                  /\ i' = i + 1
                  /\ UNCHANGED status
  /\ UNCHANGED <<upstream, csv_see, csv_see_wind, csv_wind, workflow,
                 power_unit_list_len, limit, start_from, unit_wind_list,
                 returned, existed, restarted, see_rewritten>>

\* The loop of download_unit_wind_eeg is exhausted.
download_unit_wind_eeg_return ==
  /\ workflow = "download_unit_wind_eeg"
  /\ status = "running"
  /\ i >= Len(unit_wind_list)
  /\ status' = "done"
  /\ UNCHANGED <<upstream, clock, Files, workflow, exception, Locals, returned,
                 fetched, writes, existed, restarted, see_rewritten>>

\* The process is terminated while a workflow runs: its locals are gone, the
\* files stay as they are.
Interrupt ==
  /\ status = "running"
  /\ status' = "killed"
  /\ start_from' = 0
  /\ unit_wind_list' = <<>>
  /\ i' = 0
  /\ returned' = NoReturn
  /\ fetched' = <<>>
  /\ writes' = <<>>
  /\ UNCHANGED <<upstream, clock, Files, workflow, exception,
                 power_unit_list_len, limit, existed, restarted, see_rewritten>>

Next ==
  \/ \E len \in 0..MaxTotal, lim \in 1..MaxLimit : download_power_unit(len, lim)
  \/ download_power_unit_page
  \/ download_power_unit_return
  \/ setup_power_unit_wind_call
  \/ download_unit_wind
  \/ download_unit_wind_item
  \/ download_unit_wind_return
  \/ download_unit_wind_eeg
  \/ download_unit_wind_eeg_item
  \/ download_unit_wind_eeg_return
  \/ Interrupt

\* The whole program: any of its functions, run one after another.
Spec == Init /\ [][Next]_vars

\* Stage 1 alone.
NextBulk ==
  \/ \E len \in 0..MaxTotal, lim \in 1..MaxLimit : download_power_unit(len, lim)
  \/ download_power_unit_page
  \/ download_power_unit_return
  \/ Interrupt

SpecBulk == Init /\ [][NextBulk]_vars

\* Stages 1 and 2.
NextSetup ==
  \/ \E len \in 0..MaxTotal, lim \in 1..MaxLimit : download_power_unit(len, lim)
  \/ download_power_unit_page
  \/ download_power_unit_return
  \/ setup_power_unit_wind_call
  \/ Interrupt

SpecSetup == Init /\ [][NextSetup]_vars

RECURSIVE Stage1File(_, _, _)
\* csv_see after download_power_unit(Len(upstream), lim) ran to its end at
\* clock reading 0, from the pass at offset from on.
Stage1File(file, from, lim) ==
  IF from >= Len(upstream) THEN file
  ELSE Stage1File(
         write_to_csv(file,
                      get_power_unit(
                        Reply(SubSeq(upstream, from + 1,
                                     Min(from + lim, Len(upstream)))), 0).value,
                      AppendPage(from)),
         NextStart(from, lim), lim)

\* Stages 2 to 4, started where a complete Stage 1 left the files.
InitDetail ==
  /\ upstream \in SeqsUpTo(Units, MaxUnits)
  /\ clock = 0
  /\ \E lim \in 1..MaxLimit : csv_see = Stage1File(NoFile, 0, lim)
  /\ csv_see_wind = NoFile
  /\ csv_wind = NoFile
  /\ csv_wind_eeg = NoFile
  /\ workflow = "download_power_unit"
  /\ status = "done"
  /\ exception = ""
  /\ power_unit_list_len = 0
  /\ limit = 1
  /\ start_from = 0
  /\ unit_wind_list = <<>>
  /\ i = 0
  /\ returned = NoReturn
  /\ fetched = <<>>
  /\ writes = <<>>
  /\ existed = FALSE
  /\ restarted = FALSE
  /\ see_rewritten = FALSE

NextDetail ==
  \/ setup_power_unit_wind_call
  \/ download_unit_wind
  \/ download_unit_wind_item
  \/ download_unit_wind_return
  \/ download_unit_wind_eeg
  \/ download_unit_wind_eeg_item
  \/ download_unit_wind_eeg_return
  \/ Interrupt

SpecDetail == InitDetail /\ [][NextDetail]_vars

----------------------------------------------------------------------------
\* What the properties below speak of.

SeeHeader ==
  <<"lid", "EinheitMastrNummer", "Einheittyp", "Standort", "EegMastrNummer",
    "version", "timestamp">>

SeeWindHeader == <<"id">> \o SeeHeader

WindHeader ==
  <<"lid", "Ergebniscode", "EinheitMastrNummer", "EegMastrNummer", "version",
    "timestamp">>

EegHeader == <<"lid", "Ergebniscode", "EegMastrNummer", "version", "timestamp">>

Keyed == {"download_unit_wind", "download_unit_wind_eeg"}

\* The lines of a file below its first line; none when the file is missing.
DataRows(file) == IF file.exists /\ file.lines # <<>> THEN Tail(file.lines) ELSE <<>>

\* The output file of the workflow invoked last, and its header.
Output ==
  IF workflow = "download_power_unit" THEN csv_see
  ELSE IF workflow = "download_unit_wind" THEN csv_wind
  ELSE csv_wind_eeg

OutputHeader ==
  IF workflow = "download_power_unit" THEN SeeHeader
  ELSE IF workflow = "download_unit_wind" THEN WindHeader
  ELSE EegHeader

\* The append flags of this invocation's writes to its output file.
OutputWrites ==
  LET own == SelectSeq(writes, LAMBDA w : w[1] # "stromerzeuger_wind")
  IN [k \in 1..Len(own) |-> own[k][2]]

\* The number of items the invocation has to work through.
WorkLen ==
  IF workflow = "download_power_unit" THEN power_unit_list_len
  ELSE Len(unit_wind_list)

\* Stage 1: the number of passes of the loop, their offsets, and the units the
\* upstream list holds at those offsets.
Pages == (power_unit_list_len + limit - 1) \div limit

Offsets == [k \in 1..Pages |-> (k - 1) * limit]

PagedUnits == SubSeq(upstream, 1, Min(Len(upstream), Pages * limit))

\* line is the row of unit u, the lid-th of its page.
RowOfUnit(line, u, lid) ==
  /\ Len(line) = Len(SeeHeader)
  /\ line[1] = Str(lid)
  /\ line[2] = u.EinheitMastrNummer
  /\ line[3] = u.Einheittyp
  /\ line[5] = u.EegMastrNummer
  /\ line[6] = data_version

\* The rows of file are the paged units, one row each, in order.
HoldsPages(file) ==
  LET rows == DataRows(file)
  IN /\ Len(rows) = Len(PagedUnits)
     /\ \A k \in 1..Len(rows) : RowOfUnit(rows[k], PagedUnits[k], (k - 1) % limit)

\* line is what the keyed endpoint of the workflow answers for id: the record
\* of id, or the error-coded structure when the registry does not know id.
ResultFor(line, id) ==
  /\ Len(line) = Len(OutputHeader)
  /\ line[1] = "1"
  /\ IF id \in (IF workflow = "download_unit_wind" THEN WindRegistry ELSE EegRegistry)
     THEN line[2] = "OK" /\ line[3] = id
     ELSE line[2] = "Fehler" /\ line[3] = ""

\* The rows of file are the results for ids, one row each, in order.
HoldsResults(file, ids) ==
  LET rows == DataRows(file)
  IN /\ Len(rows) = Len(ids)
     /\ \A k \in 1..Len(rows) : ResultFor(rows[k], ids[k])

\* The positions of the rows of the Stage 1 file that Stage 2 keeps: the wind
\* rows that no earlier row equals.
KeptRows(file) ==
  LET rows == DataRows(file)
  IN Ascending({k \in 1..Len(rows) :
                  /\ rows[k][3] = Windeinheit
                  /\ \A j \in 1..(k - 1) : rows[j] # rows[k]})

WindRows(file) ==
  LET keep == KeptRows(file)
  IN [k \in 1..Len(keep) |-> DataRows(file)[keep[k]]]

\* The rows of a frame in the columns of the Stage 1 file.
RowSet(df) ==
  [r \in 1..Len(df.data) |->
     [k \in 1..Len(SeeHeader) |-> df.data[r][ColPos(df, SeeHeader[k])]]]

\* A fetch of the keyed workflow invoked last raised.
FetchFailed ==
  /\ workflow \in Keyed
  /\ status = "error"
  /\ Len(fetched) = i + 1

----------------------------------------------------------------------------
\* C1 as stated: whenever download_power_unit has completed, for any expected
\* total and limit, the rows of the Stage 1 file are the pages fetched at
\* offsets 0, limit, 2*limit, ..., one row per returned unit, in fetch order.
C1_AnyTotal ==
  (workflow = "download_power_unit" /\ status = "done") => HoldsPages(csv_see)

\* C1 amended: for an expected total of at least 1, a completed
\* download_power_unit has fetched at the offsets 0, limit, 2*limit, ... and
\* the Stage 1 file is its header followed by one row per returned unit, in
\* fetch order, none missing and none twice.
C1_PagesConcatenated ==
  (workflow = "download_power_unit" /\ status = "done" /\ power_unit_list_len >= 1)
    => /\ csv_see.exists
       /\ csv_see.lines[1] = SeeHeader
       /\ fetched = Offsets
       /\ HoldsPages(csv_see)

\* A completed Stage 1 of two passes that overwrote an earlier file.
C1_Witness ==
  /\ workflow = "download_power_unit"
  /\ status = "done"
  /\ Len(fetched) = 2
  /\ existed
  /\ Len(DataRows(csv_see)) = 2

\* C2 as stated: a download workflow invoked while its output file is present
\* performs no fetch and no write to that file.
C2_NeverReentered ==
  (workflow \in Downloads /\ existed) => (fetched = <<>> /\ OutputWrites = <<>>)

\* C2 amended: only setup_power_unit_wind is keyed on its output file: invoked
\* with the wind-subset file present it fetches nothing and writes nothing.
\* A download workflow that has items to work through and runs to its end has
\* entered its loop whether or not its output file was present, and its first
\* write created the file anew.
C2_OnlySetupKeyedOnFile ==
  /\ (workflow = "setup_power_unit_wind" /\ existed)
       => (writes = <<>> /\ fetched = <<>>)
  /\ (workflow \in Downloads /\ status = "done" /\ WorkLen > 0)
       => (fetched # <<>> /\ OutputWrites # <<>> /\ ~OutputWrites[1])

\* Stage 3 invoked with its output file present, and run to its end.
C2_Witness ==
  /\ workflow = "download_unit_wind"
  /\ existed
  /\ status = "done"
  /\ Len(fetched) = 2

\* C3: a per-identifier workflow restarted after it was killed, and run to its
\* end, has fetched the whole identifier list from its first item and its
\* output file holds the rows of an uninterrupted run and nothing else; with
\* an empty list neither run writes.
C3_RestartOverwrites ==
  (workflow \in Keyed /\ status = "done" /\ restarted)
    => /\ fetched = unit_wind_list
       /\ HoldsResults(Output, unit_wind_list)
       /\ unit_wind_list = <<>> => (OutputWrites = <<>> /\ ~Output.exists)
       /\ unit_wind_list # <<>>
            => (Output.lines[1] = OutputHeader /\ ~OutputWrites[1])

\* A restarted run of two identifiers that found the file of the killed run.
C3_Witness ==
  /\ workflow \in Keyed
  /\ status = "done"
  /\ restarted
  /\ existed
  /\ Len(unit_wind_list) = 2

\* C4 as stated: after the fetch of the k-th identifier failed, the output
\* file holds exactly the rows of the identifiers before k.
C4_FileHoldsPrefix ==
  FetchFailed
    => /\ fetched = SubSeq(unit_wind_list, 1, i + 1)
       /\ HoldsResults(Output, SubSeq(unit_wind_list, 1, i))

\* C4 amended: after the fetch of the k-th identifier failed, the identifiers
\* up to k were fetched once each and no later one, no item of the loop can
\* run any more, and the run wrote one row per identifier before k; when k is
\* not the first, the output file holds exactly those rows, and when k is the
\* first the run wrote nothing, so the file is as it was before the run.
C4_AbortsAtFailure ==
  FetchFailed
    => /\ fetched = SubSeq(unit_wind_list, 1, i + 1)
       /\ Len(OutputWrites) = i
       /\ ~ENABLED (download_unit_wind_item \/ download_unit_wind_eeg_item)
       /\ i >= 1 => /\ Output.lines[1] = OutputHeader
                    /\ HoldsResults(Output, SubSeq(unit_wind_list, 1, i))

\* The fetch of the second identifier failed, in a run that found a file.
C4_Witness ==
  /\ FetchFailed
  /\ i = 1
  /\ existed

\* C5 as stated: the error-coded answer for an identifier the registry does
\* not know never becomes a row of an output file.
C5_NoErrorCodedRow ==
  /\ \A k \in 1..Len(DataRows(csv_wind)) : DataRows(csv_wind)[k][2] # "Fehler"
  /\ \A k \in 1..Len(DataRows(csv_wind_eeg)) : DataRows(csv_wind_eeg)[k][2] # "Fehler"

\* C6: a completed per-identifier workflow took its list from the column of
\* the Stage 2 file, duplicates included, made one fetch per element in list
\* order and wrote one row per element, the k-th row for the k-th element.
C6_OneRowPerIdentifier ==
  (workflow \in Keyed /\ status = "done")
    => /\ unit_wind_list =
            [k \in 1..Len(DataRows(csv_see_wind)) |->
               DataRows(csv_see_wind)[k]
                 [IF workflow = "download_unit_wind" THEN 3 ELSE 6]]
       /\ fetched = unit_wind_list
       /\ HoldsResults(Output, unit_wind_list)

\* Stage 4 completed for two wind rows naming the same EEG record.
C6_Witness ==
  /\ workflow = "download_unit_wind_eeg"
  /\ status = "done"
  /\ unit_wind_list = <<"E1", "E1">>
  /\ Len(DataRows(csv_wind_eeg)) = 2

\* The header of file is its first line and no other line.
OneHeader(file, header) ==
  file.exists
    => /\ file.lines # <<>>
       /\ file.lines[1] = header
       /\ \A k \in 2..Len(file.lines) : file.lines[k] # header

\* C7: while a download workflow runs and after it, its output file has its
\* header as the first line and nowhere else: the first write of a run
\* creates the file with the header, every later write appends without one.
C7_OneHeaderRow ==
  /\ OneHeader(csv_see, SeeHeader)
  /\ OneHeader(csv_wind, WindHeader)
  /\ OneHeader(csv_wind_eeg, EegHeader)
  /\ workflow \in Downloads
       => /\ \A k \in 1..Len(OutputWrites) : OutputWrites[k] = (k > 1)
          /\ OutputWrites # <<>> => Len(Output.lines) > Len(OutputWrites)

\* Stage 1 has written two pages: one header line and the rows of both.
C7_Witness ==
  /\ workflow = "download_power_unit"
  /\ Len(OutputWrites) = 2
  /\ Len(csv_see.lines) = 3

\* C8: while the Stage 1 file is as it was when the subset was derived, every
\* run of setup_power_unit_wind hands back the wind rows of the Stage 1 file,
\* whether it derived them or read the subset file back; and no run changes
\* the Stage 1 file.
C8_SetupIdempotent ==
  /\ []((workflow = "setup_power_unit_wind" /\ status = "done" /\ ~see_rewritten)
          => RowSet(returned.value) = WindRows(csv_see))
  /\ [][setup_power_unit_wind_call => csv_see' = csv_see]_vars

\* A run of Stage 2 that read back a subset file with rows.
C8_Witness ==
  /\ workflow = "setup_power_unit_wind"
  /\ status = "done"
  /\ existed
  /\ ~see_rewritten
  /\ Len(returned.value.data) >= 1
  /\ Len(DataRows(csv_see)) > Len(returned.value.data)

\* C9 as stated: a page shorter than limit at the end of the pagination is no
\* error, so nothing but a fault of the API call stops Stage 1.
C9_ShortPageNoError ==
  (workflow = "download_power_unit" /\ status = "error") => exception = "Fault"

\* C10: the subset file, written by a run of Stage 2 that found it absent, is
\* one write without append: its header, then the wind rows of the Stage 1
\* file in their order, each labelled with its position there, an exact
\* duplicate of an earlier row left out.
C10_WindSubsetWritten ==
  /\ (csv_see_wind.exists /\ ~see_rewritten)
       => csv_see_wind.lines =
            <<SeeWindHeader>> \o
            [k \in 1..Len(KeptRows(csv_see)) |->
               <<Str(KeptRows(csv_see)[k] - 1)>> \o
               DataRows(csv_see)[KeptRows(csv_see)[k]]]
  /\ (workflow = "setup_power_unit_wind" /\ status = "done" /\ ~existed)
       => writes = <<<<"stromerzeuger_wind", FALSE>>>>

\* Stage 2 derived the subset from a Stage 1 file with a duplicated wind row.
C10_Witness ==
  /\ workflow = "setup_power_unit_wind"
  /\ status = "done"
  /\ ~existed
  /\ Len(DataRows(csv_see_wind)) >= 1
  /\ \E j, k \in 1..Len(DataRows(csv_see)) :
       /\ j < k
       /\ DataRows(csv_see)[j] = DataRows(csv_see)[k]
       /\ DataRows(csv_see)[k][3] = Windeinheit

====
